---- MODULE Spec2Model ----
(***************************************************************************)
(* Model of Spectra's KrylovSchurGEigsBase                                 *)
(* (include/Spectra/KrylovSchurGEigsBase.h): the restart-cycle             *)
(* orchestrator of the Krylov-Schur eigen solver.                          *)
(*                                                                         *)
(* Conventions.                                                            *)
(*  - Vectors and index arrays are TLA+ sequences, so every index is the   *)
(*    C++ index plus one (C++ position 0 is position 1 here).  Counters    *)
(*    (i, maxit, nconv, nev_new, sizeV, m_niter, m_nmatop) keep their C++  *)
(*    values.                                                              *)
(*  - A complex number is a pair <<re, im>> of integers.                   *)
(*  - The quasi-triangular Schur factor T is the sequence of its diagonal  *)
(*    positions, each a pair <<re, im>>: im = 0 is a 1x1 block, im > 0 the *)
(*    first and im < 0 the second position of a 2x2 block (RealSchur       *)
(*    leaves equal diagonal entries in a 2x2 block).  T(j+1, j) # 0 iff    *)
(*    position j has im > 0.                                               *)
(*  - A matrix whose columns are unit vectors is the sequence of the       *)
(*    indices of those unit vectors (0 is a zero column); the product of   *)
(*    two such matrices is MatMul.  The dense kernels and the              *)
(*    factorization engine are outside this file: their results are drawn  *)
(*    from small sets of such matrices.                                    *)
(***************************************************************************)
EXTENDS Integers, Sequences, FiniteSets, TLC

\* ---------------------------------------------------------------- bounds
\* Largest operator dimension n tried by the constructor.
MaxN == 3
\* Largest total of the iteration caps (maxit) of the compute calls made on
\* one solver.
MaxIters == 2
\* Largest ncv for which nev_adjusted is tabulated on its own.
MaxNcvAdj == 7
\* Longest keep-mask for which ordschur is tabulated on its own.
MaxMask == 5

\* Largest size of T in the tabulation of the restart selection.
MaxPadN == 4

\* Real parts of the sampled Ritz values, and the imaginary part of a
\* sampled complex-conjugate pair.
RitzLow == -2
RitzHigh == 1
RitzImag == 1
\* Sampled residual estimates (|H.bottomRows(1) * U|): one below and one
\* above every threshold.
ResSmall == 0
ResLarge == 3
\* compute's tol argument and eps^(2/3), in units of eps^(2/3).
Tol == 1
Eps23 == 1

\* ------------------------------------------------------------- utilities
Min2(a, b) == IF a < b THEN a ELSE b

SetMin(S) == CHOOSE x \in S : \A y \in S : x <= y

Count(flags) == Cardinality({j \in DOMAIN flags : flags[j]})

Head_(s, k) == SubSeq(s, 1, k)

\* A function on 1..m, held as a sequence.
Tup(f) == f \o <<>>

Re(z) == z[1]

Im(z) == z[2]

MagSq(z) == z[1] * z[1] + z[2] * z[2]

\* Product A * B of matrices with unit-vector (or zero) columns.
MatMul(A, B) == Tup([j \in DOMAIN B |-> IF B[j] = 0 THEN 0 ELSE A[B[j]]])

IdentityMat(m) == Tup([j \in 1..m |-> j])

\* -------------------------------------------------- restart-size adjuster
\* nev_adjusted without the guard of Lola's heuristic.
nev_adjusted_unguarded(nev, ncv, nconv, nconvold) ==
    LET base == nev + Min2(nconv, (ncv - nev) \div 2)
        k1 == IF base = 1 /\ ncv > 3 THEN ncv \div 2 ELSE base
    IN IF nconvold > nconv THEN k1 + 1 ELSE k1

nev_adjusted(nev, ncv, nconv, nconvold) ==
    LET base == nev + Min2(nconv, (ncv - nev) \div 2)
        k1 == IF base = 1 /\ ncv > 3 THEN ncv \div 2 ELSE base
    IN IF k1 + 1 < ncv /\ nconvold > nconv THEN k1 + 1 ELSE k1

\* --------------------------------------------------------- Schur reorderer
\* One of the two filling loops of ordschur: positions with select = want
\* receive the next target index.
RECURSIVE FillPermutation(_, _, _, _, _)
FillPermutation(select, want, j, ind, perm) ==
    IF j > Len(select) THEN [perm |-> perm, ind |-> ind]
    ELSE IF select[j] = want
         THEN FillPermutation(select, want, j + 1, ind + 1, [perm EXCEPT ![j] = ind])
         ELSE FillPermutation(select, want, j + 1, ind, perm)

\* The permutation vector built with the discarded positions first.
BuildPermutationInverted(select) ==
    LET first == FillPermutation(select, FALSE, 1, 1, Tup([j \in 1..Len(select) |-> 0]))
    IN FillPermutation(select, TRUE, 1, first.ind, first.perm).perm

BuildPermutation(select) ==
    LET first == FillPermutation(select, TRUE, 1, 1, Tup([j \in 1..Len(select) |-> 0]))
    IN FillPermutation(select, FALSE, 1, first.ind, first.perm).perm

\* The inner search loop: the first j >= i with permutation(j) == i, or one
\* past the end when there is none.
FindTarget(perm, i) ==
    LET js == {j \in i..Len(perm) : perm[j] = i}
    IN IF js = {} THEN Len(perm) + 1 ELSE SetMin(js)

SwapAt(s, k) == [s EXCEPT ![k] = s[k + 1], ![k + 1] = s[k]]

\* The Givens loop for k = j-1 down to i: each step exchanges the diagonal
\* positions k and k+1 (and the matching columns), and the tracking array.
RECURSIVE GivensLoop(_, _, _)
GivensLoop(st, k, i) ==
    IF k < i THEN st
    ELSE GivensLoop([st EXCEPT !.perm = SwapAt(@, k),
                               !.order = SwapAt(@, k),
                               !.swaps = @ + 1], k - 1, i)

RECURSIVE OrdLoop(_, _)
OrdLoop(st, i) ==
    IF i > Len(st.perm) - 1 THEN st
    ELSE LET j == FindTarget(st.perm, i)
         IN IF j > Len(st.perm)
            THEN [st EXCEPT !.assert_ok = FALSE]
            ELSE OrdLoop(GivensLoop(st, j - 1, i), i + 1)

\* ordschur on a keep-mask.  order[p] is the original diagonal position
\* that ends at position p; perm is the permutation-tracking array.
ordschur(select) ==
    OrdLoop([perm |-> BuildPermutation(select),
             order |-> IdentityMat(Len(select)),
             swaps |-> 0,
             assert_ok |-> TRUE], 1)

Reordered(M, order) == Tup([p \in DOMAIN order |-> M[order[p]]])

\* ------------------------------------------------- selection/sort strategy
SupportedRules ==
    {"LargestMagn", "LargestReal", "LargestImag",
     "SmallestMagn", "SmallestReal", "SmallestImag"}

\* Selection rules passed to compute: two supported ones and one of the
\* other SortRule enumerators.
SelectionInputs == {"LargestMagn", "SmallestReal", "LargestAlge"}

\* Sort key of a complex value under a rule (smaller key = more wanted).
SortKey(rule, z) ==
    CASE rule = "LargestMagn" -> 0 - MagSq(z)
      [] rule = "LargestReal" -> 0 - Re(z)
      [] rule = "LargestImag" -> 0 - Im(z)
      [] rule = "SmallestMagn" -> MagSq(z)
      [] rule = "SmallestReal" -> Re(z)
      [] rule = "SmallestImag" -> Im(z)

\* SortEigenvalue: the index permutation ordering evals by the rule's key,
\* ties broken by original index.
SortEigenvalue(evals, rule) ==
    LET m == Len(evals)
        Before(a, b) == \/ SortKey(rule, evals[a]) < SortKey(rule, evals[b])
                        \/ /\ SortKey(rule, evals[a]) = SortKey(rule, evals[b])
                           /\ a < b
        Rank(j) == Cardinality({k \in 1..m : Before(k, j)}) + 1
    IN Tup([r \in 1..m |-> CHOOSE j \in 1..m : Rank(j) = r])

\* which_eigenvalues: the sorting index vector, or the invalid_argument of
\* the default branch.
which_eigenvalues(evals, sort_rule) ==
    IF sort_rule \in SupportedRules
    THEN [threw |-> FALSE, ind |-> SortEigenvalue(evals, sort_rule)]
    ELSE [threw |-> TRUE, ind |-> <<>>]

\* v(ind): reorder.inverse() * v.
Permuted(v, ind) == Tup([j \in DOMAIN ind |-> v[ind[j]]])

\* ------------------------------------------------------ convergence tester
\* num_converged: the flags res[j] < tol * max(eps23, |evals[j]|) for the
\* first nev entries, compared through the squares of the nonnegative sides.
num_converged(nev, tol, evals, res) ==
    Tup([j \in 1..nev |->
        LET m2 == IF MagSq(evals[j]) > Eps23 * Eps23 THEN MagSq(evals[j])
                  ELSE Eps23 * Eps23
        IN res[j] * res[j] < tol * tol * m2])

\* ------------------------------------------------------------ dense kernels
WellFormedT(T) ==
    \A j \in DOMAIN T :
        /\ Im(T[j]) > 0 => j < Len(T) /\ T[j + 1] = <<Re(T[j]), 0 - Im(T[j])>>
        /\ Im(T[j]) < 0 => j > 1 /\ T[j - 1] = <<Re(T[j]), 0 - Im(T[j])>>

\* Sampled quasi-triangular factors of size m: real diagonals alternating
\* between the two sampled values, and the same with one 2x2 block at the
\* top or at the bottom.
AlternatingT(m, first, second) ==
    Tup([j \in 1..m |-> <<IF j % 2 = 1 THEN first ELSE second, 0>>])

WithBlock(T, p) ==
    [T EXCEPT ![p] = <<RitzHigh, RitzImag>>, ![p + 1] = <<RitzHigh, 0 - RitzImag>>]

TSamples(m) ==
    {AlternatingT(m, RitzLow, RitzHigh), AlternatingT(m, RitzHigh, RitzLow)}
    \cup {WithBlock(AlternatingT(m, RitzLow, RitzHigh), p) : p \in {1, m - 1} \cap 1..(m - 1)}

\* Sampled orthogonal Schur factors of size m: identity and reversal.
XSamples(m) == {IdentityMat(m), Tup([j \in 1..m |-> m + 1 - j])}

\* EigenSolver(T).eigenvalues(): a 1x1 block gives its diagonal entry, a 2x2
\* block the conjugate pair.
Eigenvalues(T) == Tup([j \in DOMAIN T |-> <<Re(T[j]), Im(T[j])>>])

\* Real part of EigenSolver(T).eigenvectors() up to scaling: e_j for a 1x1
\* block, and the same real part for both members of a conjugate pair.
EigenvectorsReal(T) ==
    Tup([j \in DOMAIN T |-> IF Im(T[j]) < 0 THEN j - 1 ELSE j])

\* Sampled residual vectors by raw index: the Ritz value sorted to position
\* r <= Len(head) has residual head[r], every other one a large residual.
RawResiduals(ind, head) ==
    Tup([j \in 1..Len(ind) |->
        LET r == CHOOSE q \in 1..Len(ind) : ind[q] = j
        IN IF r <= Len(head) THEN head[r] ELSE ResLarge])

\* T.diagonal() assigned to the complex vector d.
Diagonal(T) == Tup([j \in DOMAIN T |-> <<Re(T[j]), 0>>])

\* T(j+1, j) != 0 in C++ terms: position j opens a 2x2 block.
SubDiagNonZero(T, j) == j \in DOMAIN T /\ Im(T[j]) > 0

\* ----------------------------------------------------- factorization engine
\* m_fac: H is held as the Schur data of its leading block (H = X T X^T),
\* V as ncv unit-vector columns of R^n, k is the filled size.
FacInit(ncv) ==
    [H |-> [T |-> <<>>, X |-> <<>>],
     V |-> Tup([j \in 1..ncv |-> IF j = 1 THEN 1 ELSE 0]),
     k |-> 1]

\* Columns from+1..to of V become the unit vectors not used by columns
\* 1..from, in increasing order.
ExtendV(V, from, to, n) ==
    LET free == (1..n) \ {V[j] : j \in 1..from}
        Nth(r) == CHOOSE x \in free : Cardinality({y \in free : y < x}) = r - 1
    IN Tup([j \in DOMAIN V |-> IF j > from /\ j <= to THEN Nth(j - from) ELSE V[j]])

\* factorize_from(from, to) returning false: the basis is extended to size
\* `to` and H gets a leading block with Schur data (X, T).
FactorizeOK(fac, from, to, n, X, T) ==
    [H |-> [T |-> T, X |-> X], V |-> ExtendV(fac.V, from, to, n), k |-> to]

\* factorize_from(from, to) returning true: the extension stopped at size
\* `at` (from <= at < to).
FactorizeBreakdown(fac, from, at, n) ==
    [H |-> [T |-> <<>>, X |-> <<>>], V |-> ExtendV(fac.V, from, at, n), k |-> at]

\* fac.init applies the operator once to the initial residual.
InitOps == 1

\* ------------------------------------------------------------------- state
VARIABLES
    phase,          \* "new", "ok" (constructed) or "failed" (constructor threw)
    ctor,           \* arguments of the constructor call
    m_n, m_nev, m_ncv,
    m_nmatop, m_niter,
    m_fac,
    m_evals, m_evecs, m_evals_conv,
    m_info,
    pc,             \* "idle", or "loop" inside compute's for loop
    loc,            \* compute's locals
    ret,            \* how the most recent compute ended
    last_op,        \* the most recent member function that finished
    used,           \* total of the iteration caps of the compute calls so far
    adj,            \* nev_adjusted tabulated on its own
    ord,            \* ordschur tabulated on its own
    keep             \* the restart's keep-mask tabulated on its own

solver == <<m_nmatop, m_niter, m_fac, m_evals, m_evecs, m_evals_conv, m_info>>

vars == <<phase, ctor, m_n, m_nev, m_ncv, m_nmatop, m_niter, m_fac, m_evals,
          m_evecs, m_evals_conv, m_info, pc, loc, ret, last_op, used,
          adj, ord, keep>>

\* loc: compute's arguments and locals; nfact counts the factorize_from
\* calls of this compute, first says that no other compute ran since init.
NoLoc == [selection |-> "", maxit |-> 0, i |-> 0, nconv |-> 0, sizeV |-> 0,
          nfact |-> 0, first |-> FALSE]

\* ret: kind is "returned", "aborted" (breakdown) or "threw"; value the
\* return value; selection, maxit the arguments; nconv, i the locals at the
\* exit; nfact the factorize_from calls made; wanted the real parts of the
\* first nev Ritz values as sorted in the last iteration; first as in loc.
NoRet == [kind |-> "none", value |-> 0, selection |-> "", maxit |-> 0,
          nconv |-> 0, nfact |-> 0, wanted |-> <<>>, i |-> 0,
          first |-> FALSE]

NoAdj == [nev |-> 0, ncv |-> 0, nconv |-> 0, nconvold |-> 0, nev_new |-> -1]

NoOrd == [select |-> <<>>, done |-> FALSE, out |-> ordschur(<<>>)]

NoPad == [T |-> <<>>, selection |-> "", nev_new0 |-> 0, done |-> FALSE,
          ind |-> <<>>, select |-> <<>>, nev_new |-> 0]

\* The state before the constructor runs.
NotConstructed ==
    /\ phase = "new"
    /\ ctor = [n |-> 0, nev |-> 0, ncv |-> 0]
    /\ m_n = 0 /\ m_nev = 0 /\ m_ncv = 0
    /\ m_nmatop = 0 /\ m_niter = 0
    /\ m_fac = FacInit(0)
    /\ m_evals = <<>> /\ m_evecs = <<>> /\ m_evals_conv = <<>>
    /\ m_info = "NotComputed"
    /\ pc = "idle"
    /\ loc = NoLoc
    /\ ret = NoRet
    /\ last_op = "none"
    /\ used = 0

Init ==
    /\ NotConstructed
    /\ adj = NoAdj
    /\ ord = NoOrd
    /\ keep = NoPad

\* ------------------------------------------------------------- constructor
\* The two if-statements of the constructor body.
ConstructorThrowsLoose(n, nev, ncv) ==
    \/ nev < 1 \/ nev > n - 1
    \/ ncv < nev \/ ncv > n

ConstructorThrows(n, nev, ncv) ==
    \/ nev < 1 \/ nev > n - 1
    \/ ncv <= nev \/ ncv > n

\* KrylovSchurGEigsBase(op, Bop, nev, ncv) on an operator with op.rows() = n.
\* The OpType& and the OpType&& overload have the same initializers and the
\* same body; they differ in who owns the operator.
KrylovSchurGEigsBase(n, nev, ncv) ==
    /\ phase = "new"
    /\ ctor' = [n |-> n, nev |-> nev, ncv |-> ncv]
    /\ IF ConstructorThrows(n, nev, ncv)
       THEN /\ phase' = "failed"
            /\ UNCHANGED <<m_n, m_nev, m_ncv, m_fac>>
       ELSE /\ phase' = "ok"
            /\ m_n' = n
            /\ m_nev' = nev
            /\ m_ncv' = IF ncv > n THEN n ELSE ncv
            /\ m_fac' = [H |-> [T |-> <<>>, X |-> <<>>],
                         V |-> Tup([j \in 1..(IF ncv > n THEN n ELSE ncv) |-> 0]),
                         k |-> 0]
    /\ m_nmatop' = 0
    /\ m_niter' = 0
    /\ m_info' = "NotComputed"
    /\ last_op' = "ctor"
    /\ UNCHANGED <<m_evals, m_evecs, m_evals_conv, pc, loc, ret, used,
                   adj, ord, keep>>

\* -------------------------------------------------------------------- init
\* init(init_resid) and init(): both end in the same member updates.
init ==
    /\ phase = "ok"
    /\ pc = "idle"
    /\ m_evals' = Tup([j \in 1..m_ncv |-> 0])
    /\ m_evecs' = Tup([j \in 1..m_nev |-> 0])
    /\ m_evals_conv' = Tup([j \in 1..m_nev |-> FALSE])
    /\ m_nmatop' = 0 + InitOps
    /\ m_niter' = 0
    /\ m_fac' = FacInit(m_ncv)
    /\ last_op' = "init"
    /\ UNCHANGED <<phase, ctor, m_n, m_nev, m_ncv, m_info, pc, loc, ret,
                   used, adj, ord, keep>>

\* ----------------------------------------------------------------- compute
\* The loop's exit test after num_converged.
LoopBreaks(nconv, nev, i, maxit) == nconv >= nev \/ i = maxit

\* The Boolean select vector with the first nev_new sorted indices set.
SelectMask(ind, nev_new, ncv) ==
    Tup([j \in 1..ncv |-> \E r \in 1..nev_new : ind[r] = j])

\* "Make sure both parts of a conjugate pair are present": the loop over
\* every entry of ind, from entry p on; st = [select, nev_new].
RECURSIVE ConjugatePad(_, _, _, _)
ConjugatePad(st, ind, T, p) ==
    IF p > Len(ind) THEN st
    ELSE LET j == ind[p]
             below == j < Len(T) /\ SubDiagNonZero(T, j) /\ ~st.select[j + 1]
             st1 == IF below
                    THEN [select |-> [st.select EXCEPT ![j + 1] = TRUE],
                          nev_new |-> st.nev_new + 1]
                    ELSE st
             above == j > 1 /\ SubDiagNonZero(T, j - 1) /\ ~st1.select[j - 1]
             st2 == IF above
                    THEN [select |-> [st1.select EXCEPT ![j - 1] = TRUE],
                          nev_new |-> st1.nev_new + 1]
                    ELSE st1
         IN ConjugatePad(st2, ind, T, p + 1)

\* The restart's selection on its own, from "Get original ordering of
\* eigenvalues back" to the end of the conjugate pair loop: the sorting
\* index vector of T's diagonal, the select vector and nev_new.
RestartSelect(T, selection, nev_new0) ==
    LET ind == which_eigenvalues(Diagonal(T), selection).ind
        st == ConjugatePad([select |-> SelectMask(ind, nev_new0, Len(T)),
                            nev_new |-> nev_new0], ind, T, 1)
    IN [ind |-> ind, select |-> st.select, nev_new |-> st.nev_new]

\* "Store variables for next iteration": the contracted H and V that
\* swap_H and swap_V put into the factorization.
Contract(fac, X, T, nev_new) ==
    LET Xk == Head_(X, nev_new)
        VXk == MatMul(fac.V, Xk)
    IN [H |-> [T |-> Head_(T, nev_new), X |-> IdentityMat(nev_new)],
        V |-> Tup([j \in DOMAIN fac.V |-> IF j <= nev_new THEN VXk[j] ELSE fac.V[j]]),
        k |-> fac.k]

\* m_evals = d.topRows(m_nev).real()
ExportEvals(d, nev) == Tup([j \in 1..nev |-> Re(d[j])])

\* m_evecs = (matrix_V() * (U * reorder).leftCols(m_nev)).real()
ExportEvecs(V, U, ind, nev) == MatMul(V, Head_(MatMul(U, ind), nev))

\* The status with the comparison made strict.
FinalInfoStrict(nconv, nev) ==
    IF nconv > nev THEN "Successful" ELSE "NotConverging"

FinalInfo(nconv, nev) ==
    IF nconv >= nev THEN "Successful" ELSE "NotConverging"

\* The iteration count added with the loop index as it is after the loop.
IterationsAdded(i) == i + 1

\* Entry of compute(selection, maxit, tol, sorting), up to the for loop.
\* init has been called before, and maxit >= 1.
compute(selection, maxit) ==
    /\ phase = "ok"
    /\ pc = "idle"
    /\ last_op # "ctor"
    /\ maxit >= 1
    /\ used + maxit <= MaxIters
    /\ pc' = "loop"
    /\ loc' = [selection |-> selection, maxit |-> maxit, i |-> 0, nconv |-> 0,
               sizeV |-> 0, nfact |-> 0, first |-> (last_op = "init")]
    /\ ret' = NoRet
    /\ used' = used + maxit
    /\ UNCHANGED <<phase, ctor, m_n, m_nev, m_ncv, solver, last_op, adj, ord, keep>>

\* A loop iteration whose factorize_from reports breakdown.
compute_breakdown(at) ==
    /\ pc = "loop"
    /\ m_fac' = FactorizeBreakdown(m_fac, loc.sizeV, at, m_n)
    /\ m_nmatop' = m_nmatop + (at - loc.sizeV)
    /\ m_evals' = <<>>
    /\ m_evecs' = <<>>
    /\ ret' = [kind |-> "aborted", value |-> 0, selection |-> loc.selection,
               maxit |-> loc.maxit, nconv |-> loc.nconv,
               nfact |-> loc.nfact + 1, wanted |-> <<>>, i |-> loc.i,
               first |-> loc.first]
    /\ pc' = "idle"
    /\ loc' = NoLoc
    /\ last_op' = "compute"
    /\ UNCHANGED <<phase, ctor, m_n, m_nev, m_ncv, m_niter, m_evals_conv,
                   m_info, used, adj, ord, keep>>

\* which_eigenvalues throws out of compute.
ComputeThrows(fac, nmatop) ==
    /\ m_fac' = fac
    /\ m_nmatop' = nmatop
    /\ ret' = [kind |-> "threw", value |-> 0, selection |-> loc.selection,
               maxit |-> loc.maxit, nconv |-> loc.nconv,
               nfact |-> loc.nfact + 1, wanted |-> <<>>, i |-> loc.i,
               first |-> loc.first]
    /\ pc' = "idle"
    /\ loc' = NoLoc
    /\ last_op' = "compute"
    /\ UNCHANGED <<m_niter, m_evals, m_evecs, m_evals_conv, m_info>>

\* The code after the loop: export, counters, status, return value.
ComputeReturns(fac, nmatop, flags, d, U, ind, i, nconv, wanted) ==
    /\ m_fac' = fac
    /\ m_nmatop' = nmatop
    /\ m_evals_conv' = flags
    /\ m_evals' = ExportEvals(d, m_nev)
    /\ m_evecs' = ExportEvecs(fac.V, U, ind, m_nev)
    /\ m_niter' = m_niter + IterationsAdded(i)
    /\ m_info' = FinalInfo(nconv, m_nev)
    /\ ret' = [kind |-> "returned", value |-> Min2(m_nev, nconv),
               selection |-> loc.selection, maxit |-> loc.maxit,
               nconv |-> nconv, nfact |-> loc.nfact + 1, wanted |-> wanted,
               i |-> i, first |-> loc.first]
    /\ pc' = "idle"
    /\ loc' = NoLoc
    /\ last_op' = "compute"

\* The loop goes on to its next iteration.
ComputeContinues(fac, nmatop, flags, nconv, nev_new) ==
    /\ m_fac' = fac
    /\ m_nmatop' = nmatop
    /\ m_evals_conv' = flags
    /\ loc' = [loc EXCEPT !.i = loc.i + 1, !.nconv = nconv, !.sizeV = nev_new,
                          !.nfact = loc.nfact + 1]
    /\ UNCHANGED <<m_niter, m_evals, m_evecs, m_info, pc, ret, last_op>>

\* A loop iteration whose factorize_from succeeds; X, T are the Schur
\* factors of H and head the residual estimates of the nev most wanted
\* Ritz values.  Each intermediate value is bound once by a one-element
\* quantifier.
compute_iteration(X, T, head) ==
    /\ pc = "loop"
    /\ UNCHANGED <<phase, ctor, m_n, m_nev, m_ncv, used, adj, ord, keep>>
    /\ \E fac1 \in {FactorizeOK(m_fac, loc.sizeV, m_ncv, m_n, X, T)},
          nmatop1 \in {m_nmatop + (m_ncv - loc.sizeV)},
          d0 \in {Eigenvalues(T)},
          U0 \in {MatMul(X, EigenvectorsReal(T))} :
       \E w1 \in {which_eigenvalues(d0, loc.selection)} :
          IF w1.threw
          THEN ComputeThrows(fac1, nmatop1)
          ELSE
            \E res \in {RawResiduals(w1.ind, head)} :
            \E d1 \in {Permuted(d0, w1.ind)}, res1 \in {Permuted(res, w1.ind)} :
            \E flags \in {num_converged(m_nev, Tol, d1, res1)},
               wanted \in {ExportEvals(d1, m_nev)} :
            \E nconv \in {Count(flags)} :
               IF LoopBreaks(nconv, m_nev, loc.i, loc.maxit)
               THEN ComputeReturns(fac1, nmatop1, flags, d1, U0, w1.ind, loc.i,
                                   nconv, wanted)
               ELSE
                 \E nev_new0 \in {nev_adjusted(m_nev, m_ncv, nconv, loc.nconv)},
                    d2 \in {Diagonal(T)} :
                 \E ind2 \in {which_eigenvalues(d2, loc.selection).ind} :
                 \E pad \in {ConjugatePad(
                                [select |-> SelectMask(ind2, nev_new0, m_ncv),
                                 nev_new |-> nev_new0], ind2, T, 1)} :
                 \E o \in {ordschur(pad.select)} :
                 \E fac2 \in {Contract(fac1, Reordered(X, o.order),
                                       Reordered(T, o.order), pad.nev_new)} :
                    IF loc.i + 1 < loc.maxit
                    THEN ComputeContinues(fac2, nmatop1, flags, nconv,
                                          pad.nev_new)
                    ELSE ComputeReturns(fac2, nmatop1, flags, d2, U0, ind2,
                                        loc.i + 1, nconv, wanted)

\* ---------------------------------------------------------------- accessors
info == m_info

num_iterations == m_niter

num_operations == m_nmatop

eigenvalues == m_evals

\* eigenvectors(nvec): matrix_V().leftCols(min(nvec, m_evals_conv.count()))
eigenvectors(nvec) == Head_(m_fac.V, Min2(nvec, Count(m_evals_conv)))

\* eigenvectors()
eigenvectors_all == eigenvectors(m_nev)

\* ----------------------------------------------------------- specifications
\* One step of each kind, with its inputs.
Construct ==
    /\ phase = "new"
    /\ \E n \in 0..MaxN, nev \in 0..MaxN, ncv \in 0..(MaxN + 1) :
          KrylovSchurGEigsBase(n, nev, ncv)

CallCompute ==
    /\ pc = "idle"
    /\ \E selection \in SelectionInputs, maxit \in 1..MaxIters :
          compute(selection, maxit)

IterationBreakdown ==
    /\ pc = "loop"
    /\ \E at \in loc.sizeV..(m_ncv - 1) : compute_breakdown(at)

Iteration ==
    /\ pc = "loop"
    /\ \E X \in XSamples(m_ncv), T \in TSamples(m_ncv),
          head \in [1..m_nev -> {ResSmall, ResLarge}] :
          compute_iteration(X, T, head)

Next == Construct \/ init \/ CallCompute \/ IterationBreakdown \/ Iteration

Spec == Init /\ [][Next]_vars

\* nev_adjusted on its own: every valid configuration 1 <= nev < ncv up to
\* MaxNcvAdj and every pair of convergence counts in 0..nev.
AdjInputs ==
    {[nev |-> nev, ncv |-> ncv, nconv |-> nconv, nconvold |-> nconvold,
      nev_new |-> -1] :
        nev \in 1..MaxNcvAdj, ncv \in 2..MaxNcvAdj,
        nconv \in 0..MaxNcvAdj, nconvold \in 0..MaxNcvAdj}

ValidAdjInput(a) ==
    /\ a.nev < a.ncv
    /\ a.nconv <= a.nev
    /\ a.nconvold <= a.nev

InitAdj ==
    /\ NotConstructed
    /\ adj \in {a \in AdjInputs : ValidAdjInput(a)}
    /\ ord = NoOrd
    /\ keep = NoPad

ApplyNevAdjusted ==
    /\ adj.nev_new = -1
    /\ adj' = [adj EXCEPT !.nev_new =
                  nev_adjusted(adj.nev, adj.ncv, adj.nconv, adj.nconvold)]
    /\ UNCHANGED <<phase, ctor, m_n, m_nev, m_ncv, solver, pc, loc, ret,
                   last_op, used, ord, keep>>

SpecAdj == InitAdj /\ [][ApplyNevAdjusted]_vars

\* ordschur on its own: every keep-mask of length 0..MaxMask.
MaskInputs == UNION {[1..m -> BOOLEAN] : m \in 0..MaxMask}

InitOrd ==
    /\ NotConstructed
    /\ adj = NoAdj
    /\ ord \in {[select |-> Tup(mask), done |-> FALSE, out |-> NoOrd.out] :
                   mask \in MaskInputs}
    /\ keep = NoPad

ApplyOrdschur ==
    /\ ~ord.done
    /\ ord' = [ord EXCEPT !.done = TRUE, !.out = ordschur(ord.select)]
    /\ UNCHANGED <<phase, ctor, m_n, m_nev, m_ncv, solver, pc, loc, ret,
                   last_op, used, adj, keep>>

SpecOrd == InitOrd /\ [][ApplyOrdschur]_vars

\* The restart's selection on its own: every quasi-triangular T of size
\* 2..MaxPadN over the sampled entries, every supported selection rule and
\* every nev_new in 1..ncv-1 coming out of nev_adjusted.
PadDiag ==
    {<<RitzLow, 0>>, <<RitzHigh, 0>>,
     <<RitzHigh, RitzImag>>, <<RitzHigh, 0 - RitzImag>>}

QuasiTriangular(m) == {Tup(T) : T \in {S \in [1..m -> PadDiag] : WellFormedT(S)}}

PadInputs ==
    UNION {UNION {{[NoPad EXCEPT !.T = T, !.selection = s, !.nev_new0 = k] :
                      T \in QuasiTriangular(m), s \in SupportedRules} :
                  k \in 1..(m - 1)} :
           m \in 2..MaxPadN}

InitPad ==
    /\ NotConstructed
    /\ adj = NoAdj
    /\ ord = NoOrd
    /\ keep \in PadInputs

ApplyRestartSelect ==
    /\ ~keep.done
    /\ \E out \in {RestartSelect(keep.T, keep.selection, keep.nev_new0)} :
          keep' = [keep EXCEPT !.done = TRUE, !.ind = out.ind,
                             !.select = out.select, !.nev_new = out.nev_new]
    /\ UNCHANGED <<phase, ctor, m_n, m_nev, m_ncv, solver, pc, loc, ret,
                   last_op, used, adj, ord>>

SpecPad == InitPad /\ [][ApplyRestartSelect]_vars

\* ------------------------------------------------------------------ claims
Returned == last_op = "compute" /\ ret.kind = "returned"

Aborted == last_op = "compute" /\ ret.kind = "aborted"

\* C1: the constructor throws exactly when nev < 1, nev > n-1, ncv <= nev or
\* ncv > n; otherwise the solver stores nev and ncv as given and its status
\* is NotComputed.
C1_ConstructorContract ==
    phase # "new" =>
        /\ phase = "failed" <=>
              \/ ctor.nev < 1 \/ ctor.nev > ctor.n - 1
              \/ ctor.ncv <= ctor.nev \/ ctor.ncv > ctor.n
        /\ phase = "ok" =>
              /\ m_n = ctor.n /\ m_nev = ctor.nev /\ m_ncv = ctor.ncv
              /\ last_op = "ctor" => info = "NotComputed"

\* A solver built at the edge of the accepted range: nev = n-1, ncv = n.
C1_Witness ==
    /\ phase = "ok" /\ last_op = "ctor"
    /\ ctor.nev = ctor.n - 1 /\ ctor.ncv = ctor.n /\ ctor.n = MaxN

\* C2: every step of a compute call whose selection rule is unsupported ends
\* the call with the invalid-argument error and leaves all members (H, V,
\* operation counter, iteration counter, eigenvalue/eigenvector buffers,
\* convergence flags, status) as they were.
C2_UnsupportedRuleFailsClean ==
    [][(pc = "loop" /\ loc.selection \notin SupportedRules)
          => (ret'.kind = "threw" /\ solver' = solver)]_vars

\* C3: after a compute that aborted on breakdown (in any iteration) the
\* return value is 0, eigenvalues() is empty and eigenvectors(k),
\* eigenvectors() have no columns.
C3_BreakdownGivesEmptyResult ==
    Aborted =>
        /\ ret.value = 0
        /\ Len(eigenvalues) = 0
        /\ Len(eigenvectors_all) = 0
        /\ \A k \in 0..m_ncv : Len(eigenvectors(k)) = 0

\* C4: when the most recent compute aborted on breakdown, info() is
\* NotComputed.
C4_AbortLeavesNotComputed == ret.kind = "aborted" => info = "NotComputed"

\* C5: a compute that returns normally leaves Successful iff the convergence
\* count of its last iteration is at least nev and NotConverging otherwise
\* (always so when the loop ran into the cap), and returns min(nev, nconv),
\* which is nev exactly when the status is Successful.
C5_StatusAndReturnValue ==
    Returned =>
        /\ ret.nconv = Count(m_evals_conv)
        /\ info = "Successful" <=> ret.nconv >= m_nev
        /\ info = "NotConverging" <=> ret.nconv < m_nev
        /\ ret.i = ret.maxit => info = "NotConverging"
        /\ ret.value = Min2(m_nev, ret.nconv)
        /\ ret.value = m_nev <=> info = "Successful"

\* A compute that ran into the cap with some, but not all, wanted values
\* converged.
C5_Witness ==
    /\ Returned /\ info = "NotConverging"
    /\ ret.i = ret.maxit /\ ret.nconv >= 1 /\ ret.value = ret.nconv

\* C6: for 1 <= nev < ncv and convergence counts in 0..nev, nev_adjusted
\* returns nev_new with nev <= nev_new < ncv.
C6_NevAdjustedInRange ==
    adj.nev_new # -1 => adj.nev <= adj.nev_new /\ adj.nev_new < adj.ncv

\* The override to ncv / 2 followed by the increment of Lola's heuristic.
C6_Witness ==
    /\ adj.nev = 1 /\ adj.ncv > 3 /\ adj.nconv = 0 /\ adj.nconvold = 1
    /\ adj.nev_new = (adj.ncv \div 2) + 1

\* C7: after a compute that returns normally, eigenvalues() holds the real
\* parts of the first nev Ritz values in the order of the sort step of the
\* last executed iteration.
C7_EigenvaluesAreWantedRitzValues == Returned => eigenvalues = ret.wanted

\* C8: after a compute that returns normally, eigenvectors(k) is the leading
\* min(k, nconv) columns of the eigenvector matrix assembled at termination,
\* nconv being the number of set convergence flags, and eigenvectors() is
\* eigenvectors(nev).
C8_EigenvectorsAreAssembled ==
    Returned =>
        /\ \A k \in 0..m_ncv :
              eigenvectors(k) = Head_(m_evecs, Min2(k, Count(m_evals_conv)))
        /\ eigenvectors_all = eigenvectors(m_nev)

\* C9: after init and one compute that returns normally, num_iterations() is
\* the number of factorize_from calls of that compute, at least 1 and at
\* most maxit.
C9_IterationCount ==
    (Returned /\ ret.first) =>
        /\ num_iterations = ret.nfact
        /\ 1 <= num_iterations
        /\ num_iterations <= ret.maxit

\* C10: ordschur ends with the kept positions first and the discarded ones
\* after them, both in their original relative order; the tracking array is
\* the identity, every lookup found its target, and at most m(m-1)/2
\* adjacent exchanges were made.
C10_OrdschurStablePartition ==
    ord.done =>
        LET m == Len(ord.select)
            order == ord.out.order
        IN /\ Len(order) = m
           /\ {order[p] : p \in 1..m} = 1..m
           /\ \A p, q \in 1..m :
                 p < q =>
                    /\ ord.select[order[q]] => ord.select[order[p]]
                    /\ ord.select[order[p]] = ord.select[order[q]]
                          => order[p] < order[q]
           /\ ord.out.perm = IdentityMat(m)
           /\ ord.out.assert_ok
           /\ 2 * ord.out.swaps <= m * (m - 1)

\* A mask whose kept positions all come after its discarded ones, so that
\* every kept position has to be moved.
C10_Witness ==
    /\ ord.done
    /\ Len(ord.select) = MaxMask
    /\ ~ord.select[1] /\ ~ord.select[2]
    /\ \A j \in 3..MaxMask : ord.select[j]
    /\ ord.out.swaps = 2 * (MaxMask - 2)

\* C11: after the conjugate-pair step of a restart the keep-mask is exactly
\* the first nev_new (from nev_adjusted) indices in selection order together
\* with the 2x2-block partners of those indices, and the updated nev_new is
\* the number of kept positions.
C11_KeepMaskIsPaddedSelection ==
    keep.done =>
        LET T == keep.T
            kept0 == {keep.ind[r] : r \in 1..keep.nev_new0}
            Partner(j) == IF Im(T[j]) > 0 THEN j + 1
                          ELSE IF Im(T[j]) < 0 THEN j - 1 ELSE j
            expected == kept0 \cup {Partner(j) : j \in kept0}
        IN /\ {j \in DOMAIN T : keep.select[j]} = expected
           /\ keep.nev_new = Cardinality(expected)

\* C12: the retained size with which a restart iteration contracts H and V
\* and from which the next factorize_from starts is at least nev and
\* strictly less than ncv.
C12_RetainedSizeInRange ==
    (pc = "loop" /\ loc.i >= 1) => (m_nev <= loc.sizeV /\ loc.sizeV < m_ncv)

====
